---- MODULE Spec2Model ----
(***************************************************************************)
(* State-machine model of the SAC agent of src/SAC/sac_agent.py.           *)
(*                                                                         *)
(* The agent's state is its replay buffer (self.memory), the step counter  *)
(* (self.total_step), the test flag (self.is_test), the last transition    *)
(* (self.transition) and the parameter sets actor, qf1, qf2, vf,           *)
(* vf_target and log_alpha.  The four artifacts under results/ and a       *)
(* second, freshly constructed agent are part of the state so that         *)
(* save_models / load_models can be followed.                              *)
(*                                                                         *)
(* Numbers.  Parameter elements of vf and vf_target are exact rationals    *)
(* <<n, d>> in lowest terms (d > 0), so the Polyak blend of                *)
(* _target_soft_update is computed as written.  The numerical outcome of   *)
(* loss.backward() followed by an Adam step cannot be computed here; it is *)
(* a nondeterministic displacement drawn from Grads (0: the gradient was   *)
(* zero and the parameters keep their values).  What the losses and        *)
(* targets of update_model READ is recorded in the variable last.          *)
(*                                                                         *)
(* SAC.buffer.ReplayBuffer and SAC.actor_critic are imported by the source *)
(* file but are not part of it; the buffer is modelled from its contract   *)
(* (circular store, size saturating at capacity, sampling below size).     *)
(***************************************************************************)
EXTENDS Integers, Sequences, FiniteSets, TLC

\* ------------------------------------------------------------------------
\* Program constants (src/SAC/sac_agent.py, lines 14-20)
\* ------------------------------------------------------------------------
TAU_NUM == 5
TAU_DEN == 1000
INITIAL_RANDOM_STEPS == 100
POLICY_UPDATE_FREQUENCE == 1
BUFFER_SIZE == 1000000
BATCH_SIZE == 256
\* SAC(action_dim, state_dim): the action dimension the agent is built with
action_dim == 1

\* ------------------------------------------------------------------------
\* Bounds of the model
\* ------------------------------------------------------------------------
\* steps taken beyond the warm-up length
StepsAfter == 2
\* transitions stored beyond the batch size
StoresAfter == 2
\* update_model runs followed
MaxUpdates == 2
\* parameter elements of the V network that are followed
NParams == 2
\* largest magnitude of a raw actor output component
MaxRaw == 2
\* largest capacity of a stand-alone replay buffer
MaxCap == 3
\* largest batch size of a stand-alone replay buffer
MaxBatch == 2
\* largest policy-update cadence the caller sets
MaxFreq == 2
\* stores into a stand-alone replay buffer beyond its capacity
ExtraStores == 2

\* ------------------------------------------------------------------------
\* Exact rationals
\* ------------------------------------------------------------------------
Abs(x) == IF x < 0 THEN -x ELSE x

RECURSIVE GCD(_, _)
GCD(a, b) == IF b = 0 THEN a ELSE GCD(b, a % b)

Rat(n, d) ==
    LET g == GCD(Abs(n), d)
    IN  IF n = 0 THEN <<0, 1>> ELSE <<n \div g, d \div g>>

RInt(n) == <<n, 1>>

RAdd(a, b) ==
    LET g == GCD(a[2], b[2])
        l == (a[2] \div g) * b[2]
    IN  Rat(a[1] * (l \div a[2]) + b[1] * (l \div b[2]), l)

RNeg(a) == <<-a[1], a[2]>>

RSub(a, b) == RAdd(a, RNeg(b))

RMul(a, b) ==
    LET g1 == GCD(Abs(a[1]), b[2])
        g2 == GCD(Abs(b[1]), a[2])
    IN  IF a[1] = 0 \/ b[1] = 0 THEN <<0, 1>>
        ELSE <<(a[1] \div g1) * (b[1] \div g2), (a[2] \div g2) * (b[2] \div g1)>>

ROne == RInt(1)

RZero == RInt(0)

TAU == Rat(TAU_NUM, TAU_DEN)

Idx == 1..NParams

\* outcomes of one optimizer step: 0, the gradient vanished and the
\* parameters keep their values; 1, they are displaced
Grads == {0, 1}

\* ------------------------------------------------------------------------
\* ReplayBuffer (SAC.buffer, not part of the source file): a pre-allocated,
\* zero-filled circular store.  buf holds the slots whose content differs
\* from the all-zero transition; every other slot reads as ZeroTransition.
\* ------------------------------------------------------------------------
ZeroTransition == [obs |-> 0, acts |-> 0, rews |-> 0, next_obs |-> 0, done |-> FALSE]

ReplayBuffer(size, batch_size) ==
    [max_size |-> size, batch_size |-> batch_size, ptr |-> 0, size |-> 0,
     buf |-> [i \in {} |-> ZeroTransition]]

BufAt(m, i) == IF i \in DOMAIN m.buf THEN m.buf[i] ELSE ZeroTransition

Min(a, b) == IF a < b THEN a ELSE b

\* variant: size grows on every store
BufStoreUnsaturated(m, obs, act, rew, next_obs, done) ==
    LET t == [obs |-> obs, acts |-> act, rews |-> rew, next_obs |-> next_obs,
              done |-> done]
        keep == IF t = ZeroTransition THEN DOMAIN m.buf \ {m.ptr}
                ELSE DOMAIN m.buf \cup {m.ptr}
    IN  [m EXCEPT !.buf = [i \in keep |-> IF i = m.ptr THEN t ELSE m.buf[i]],
                  !.ptr = (m.ptr + 1) % m.max_size,
                  !.size = m.size + 1]

BufStore(m, obs, act, rew, next_obs, done) ==
    LET t == [obs |-> obs, acts |-> act, rews |-> rew, next_obs |-> next_obs,
              done |-> done]
        keep == IF t = ZeroTransition THEN DOMAIN m.buf \ {m.ptr}
                ELSE DOMAIN m.buf \cup {m.ptr}
    IN  [m EXCEPT !.buf = [i \in keep |-> IF i = m.ptr THEN t ELSE m.buf[i]],
                  !.ptr = (m.ptr + 1) % m.max_size,
                  !.size = Min(m.size + 1, m.max_size)]

BufLen(m) == m.size

\* sample_batch fails with InsufficientDataError
SampleRaises(m) == m.size < m.batch_size

\* the index vectors sample_batch may draw (with replacement)
SampleIdxs(m) == [1..m.batch_size -> 0..(m.size - 1)]

\* ------------------------------------------------------------------------
\* State
\* ------------------------------------------------------------------------
VARIABLES
    memory,                 \* self.memory
    total_step,             \* self.total_step
    is_test,                \* self.is_test
    transition,             \* self.transition
    actor, qf1, qf2, vf,    \* parameters of the four online networks
    vf_target,              \* parameters of self.vf_target
    log_alpha,              \* self.log_alpha
    n_updates,              \* optimizer steps taken (update_model runs)
    files,                  \* results/<name>.pt : name -> saved state_dict
    other,                  \* a second agent of the same dimensions
    tau,                    \* module global TAU
    policy_update_frequence,\* module global POLICY_UPDATE_FREQUENCE
    nstores,                \* calls of memory.store so far
    n_soft,                 \* calls of _target_soft_update so far
    last                    \* the most recent call: what it returned and read

vars == <<memory, total_step, is_test, transition, actor, qf1, qf2, vf,
          vf_target, log_alpha, n_updates, files, other, tau,
          policy_update_frequence, nstores, n_soft, last>>

params == <<actor, qf1, qf2, vf, vf_target, log_alpha>>

\* the parameter values a network is constructed with (torch draws them at
\* random; distinct seeds stand for distinct draws)
InitParams(seed) == [i \in Idx |-> RInt(seed + i)]

\* what update_model read and did: the log_alpha behind alpha_loss and behind
\* alpha, the target-V parameters behind q_target, whether the policy branch
\* ran, the actor loss returned, and the optimizers stepped
NoReads ==
    [alpha_loss_la |-> 0, alpha_la |-> 0, q_target_vt |-> <<>>,
     policy |-> FALSE, actor_loss |-> "none", stepped |-> {}]

\* a call: its arguments, the raw actor output (step), the value returned,
\* the update_model runs it started and whether it raised
Call(op) == [op |-> op, args |-> <<>>, actor_out |-> <<>>, ret |-> <<>>,
             updates |-> 0, raised |-> FALSE, reads |-> NoReads]

\* SAC.__init__
NewAgent(seed) ==
    [actor |-> InitParams(seed), qf1 |-> InitParams(seed + 20),
     qf2 |-> InitParams(seed + 30), vf |-> InitParams(seed + 10),
     vf_target |-> InitParams(seed + 10), log_alpha |-> 0]

InitNetworks ==
    /\ log_alpha = NewAgent(0).log_alpha
    /\ actor = NewAgent(0).actor
    /\ vf = NewAgent(0).vf
    /\ vf_target = vf
    /\ qf1 = NewAgent(0).qf1
    /\ qf2 = NewAgent(0).qf2

InitRest ==
    /\ is_test = FALSE
    /\ n_updates = 0
    /\ n_soft = 0
    /\ files = [n \in {} |-> <<>>]
    /\ other = NewAgent(50)

InitCounters ==
    /\ transition = << <<>> >>
    /\ total_step = 0
    /\ nstores = 0
    /\ last = Call("__init__")

InitAgent ==
    /\ memory = ReplayBuffer(BUFFER_SIZE, BATCH_SIZE)
    /\ InitNetworks
    /\ InitRest
    /\ InitCounters

Init ==
    /\ InitAgent
    /\ tau = TAU
    /\ policy_update_frequence = POLICY_UPDATE_FREQUENCE

\* ------------------------------------------------------------------------
\* step
\* ------------------------------------------------------------------------
RawActs == (-MaxRaw)..MaxRaw

\* variant: only the lower bound is enforced
ClipBelowOnly(x) == IF x < -1 THEN -1 ELSE x

\* np.clip(x, -1, 1) on one component
Clip(x) == IF x < -1 THEN -1 ELSE IF x > 1 THEN 1 ELSE x

step(raw) ==
    /\ total_step < INITIAL_RANDOM_STEPS + StepsAfter
    /\ LET selected_action == << [i \in 1..action_dim |-> Clip(raw[i])] >>
       IN  last' = [Call("step") EXCEPT !.actor_out = raw,
                                        !.ret = selected_action]
    /\ total_step' = total_step + 1
    /\ UNCHANGED <<memory, is_test, transition, params, n_updates, files,
                   other, tau, policy_update_frequence, nstores, n_soft>>

\* ------------------------------------------------------------------------
\* store_transition
\* ------------------------------------------------------------------------
\* variant: the arguments are kept in the order they were passed
TransitionOfUnordered(state, new_state, reward, action, done) ==
    <<state, new_state, reward, action, done>>

\* self.transition = [state, action, reward, new_state, done]
TransitionOf(state, new_state, reward, action, done) ==
    <<state, action, reward, new_state, done>>

\* self.memory.store(*self.transition)
StoreArgs(m, t) == BufStore(m, t[1], t[2], t[3], t[4], t[5])

store_transition(state, new_state, reward, action, done) ==
    /\ IF ~is_test
       THEN /\ nstores < BATCH_SIZE + StoresAfter
            /\ transition' = TransitionOf(state, new_state, reward, action, done)
            /\ memory' = StoreArgs(memory, transition')
            /\ nstores' = nstores + 1
       ELSE UNCHANGED <<memory, transition, nstores>>
    /\ last' = [Call("store_transition") EXCEPT
                    !.args = <<state, new_state, reward, action, done>>]
    /\ UNCHANGED <<total_step, is_test, params, n_updates, files, other, tau,
                   policy_update_frequence, n_soft>>

\* the arguments (state, new_state, reward, action, done) the environment
\* loop passes: the all-zero transition while the first batch fills, that or
\* another one afterwards
EnvCalls ==
    {<<0, 0, 0, 0, FALSE>>} \cup
    (IF memory.ptr >= BATCH_SIZE THEN {<<1, 2, 3, 4, TRUE>>} ELSE {})

\* ------------------------------------------------------------------------
\* _target_soft_update
\* ------------------------------------------------------------------------
\* variant: the two weights are exchanged
SoftUpdateElemSwapped(t, l_param, t_param) ==
    RAdd(RMul(RSub(ROne, t), l_param), RMul(t, t_param))

\* t_param <- TAU * l_param + (1.0 - TAU) * t_param
SoftUpdateElem(t, l_param, t_param) ==
    RAdd(RMul(t, l_param), RMul(RSub(ROne, t), t_param))

TargetSoftUpdate(t, target, online) ==
    [i \in Idx |-> SoftUpdateElem(t, online[i], target[i])]

\* ------------------------------------------------------------------------
\* train / update_model
\* ------------------------------------------------------------------------
\* variant: both comparisons admit equality
TrainGateAtLeast(len, steps) ==
    len >= BATCH_SIZE /\ steps >= INITIAL_RANDOM_STEPS

\* variant: the buffer length is not consulted
TrainGateStepsOnly(len, steps) == steps > INITIAL_RANDOM_STEPS

TrainGate(len, steps) == len > BATCH_SIZE /\ steps > INITIAL_RANDOM_STEPS

\* variant: the policy branch runs on every call
PolicyUpdateDueAlways(steps, freq) == TRUE

PolicyUpdateDue(steps, freq) == steps % freq = 0

\* optimizer.zero_grad(); loss.backward(); optimizer.step() with outcome g
AdamStep(p, g) == [i \in Idx |-> RAdd(p[i], RInt(g))]

\* the value of self.log_alpha that alpha_loss is computed from (line 94)
AlphaLossReads(la_before, la_after) == la_before

\* variant: alpha is taken before the alpha optimizer steps
AlphaReadsStale(la_before, la_after) == la_before

\* the value of self.log_alpha that alpha = self.log_alpha.exp() reads (line 100)
AlphaReads(la_before, la_after) == la_after

\* the target-V parameters after the policy-update branch (lines 117-127)
TargetAfter(due, t, target, online) ==
    IF due THEN TargetSoftUpdate(t, target, online) ELSE target

update_model(ga, g) ==
    IF SampleRaises(memory)
    THEN /\ last' = [Call("train") EXCEPT !.updates = 1, !.raised = TRUE]
         /\ UNCHANGED <<params, n_updates, n_soft>>
    ELSE LET la_after == log_alpha + ga
             due == PolicyUpdateDue(total_step, policy_update_frequence)
         IN  /\ log_alpha' = la_after
             /\ actor' = IF due THEN AdamStep(actor, g) ELSE actor
             /\ vf_target' = TargetAfter(due, tau, vf_target, vf)
             /\ n_soft' = IF due THEN n_soft + 1 ELSE n_soft
             /\ qf1' = AdamStep(qf1, g)
             /\ qf2' = AdamStep(qf2, g)
             /\ vf' = AdamStep(vf, g)
             /\ n_updates' = n_updates + 1
             /\ last' = [Call("train") EXCEPT
                    !.updates = 1,
                    !.reads = [alpha_loss_la |-> AlphaLossReads(log_alpha, la_after),
                               alpha_la |-> AlphaReads(log_alpha, la_after),
                               q_target_vt |-> vf_target,
                               policy |-> due,
                               actor_loss |-> IF due THEN "computed" ELSE "zeros",
                               stepped |-> {"alpha", "qf1", "qf2", "vf"} \cup
                                           (IF due THEN {"actor"} ELSE {})]]

train ==
    /\ IF TrainGate(BufLen(memory), total_step)
       THEN /\ n_updates < MaxUpdates
            /\ \E ga \in Grads, g \in Grads : update_model(ga, g)
       ELSE /\ last' = Call("train")
            /\ UNCHANGED <<params, n_updates, n_soft>>
    /\ UNCHANGED <<memory, total_step, is_test, transition, files, other, tau,
                   policy_update_frequence, nstores>>

\* ------------------------------------------------------------------------
\* save_models / load_models
\* ------------------------------------------------------------------------
Artifacts == {"actor", "qf1", "qf2", "vf"}

SavedStateDicts(a, q1, q2, v) ==
    [n \in Artifacts |->
        CASE n = "actor" -> a [] n = "qf1" -> q1 [] n = "qf2" -> q2 [] n = "vf" -> v]

\* variant: qf2 is restored from qf1's artifact
LoadStateDictsCrossed(f) ==
    [actor |-> f["actor"], qf1 |-> f["qf1"], qf2 |-> f["qf1"], vf |-> f["vf"]]

\* what the four load_state_dict calls put into actor, qf1, qf2, vf
LoadStateDicts(f) ==
    [actor |-> f["actor"], qf1 |-> f["qf1"], qf2 |-> f["qf2"], vf |-> f["vf"]]

save_models ==
    /\ files' = SavedStateDicts(actor, qf1, qf2, vf)
    /\ last' = Call("save_models")
    /\ UNCHANGED <<memory, total_step, is_test, transition, params, n_updates,
                   other, tau, policy_update_frequence, nstores, n_soft>>

\* variant: the target network is re-synchronised to the loaded V
load_models_resync ==
    /\ IF Artifacts \subseteq DOMAIN files
       THEN /\ actor' = LoadStateDicts(files).actor
            /\ qf1' = LoadStateDicts(files).qf1
            /\ qf2' = LoadStateDicts(files).qf2
            /\ vf' = LoadStateDicts(files).vf
            /\ vf_target' = vf'
            /\ last' = Call("load_models")
       ELSE /\ UNCHANGED <<actor, qf1, qf2, vf, vf_target>>
            /\ last' = [Call("load_models") EXCEPT !.raised = TRUE]
    /\ UNCHANGED <<memory, total_step, is_test, transition,
                   log_alpha, n_updates, files, other, tau,
                   policy_update_frequence, nstores, n_soft>>

load_models ==
    /\ IF Artifacts \subseteq DOMAIN files
       THEN /\ actor' = LoadStateDicts(files).actor
            /\ qf1' = LoadStateDicts(files).qf1
            /\ qf2' = LoadStateDicts(files).qf2
            /\ vf' = LoadStateDicts(files).vf
            /\ last' = Call("load_models")
       ELSE /\ UNCHANGED <<actor, qf1, qf2, vf>>
            /\ last' = [Call("load_models") EXCEPT !.raised = TRUE]
    /\ UNCHANGED <<memory, total_step, is_test, transition, vf_target,
                   log_alpha, n_updates, files, other, tau,
                   policy_update_frequence, nstores, n_soft>>

\* load_models called on the second agent
other_load_models ==
    /\ Artifacts \subseteq DOMAIN files
    /\ other' = [other EXCEPT !.actor = LoadStateDicts(files).actor,
                              !.qf1 = LoadStateDicts(files).qf1,
                              !.qf2 = LoadStateDicts(files).qf2,
                              !.vf = LoadStateDicts(files).vf]
    /\ last' = Call("other.load_models")
    /\ UNCHANGED <<memory, total_step, is_test, transition, params, n_updates,
                   files, tau, policy_update_frequence, nstores, n_soft>>

\* the caller switches the agent to or from inference-only mode
set_is_test(b) ==
    /\ is_test # b
    /\ is_test' = b
    /\ last' = Call("is_test")
    /\ UNCHANGED <<memory, total_step, transition, params, n_updates, files,
                   other, tau, policy_update_frequence, nstores, n_soft>>

\* _target_soft_update called on its own
target_soft_update ==
    /\ n_soft < MaxUpdates
    /\ vf_target' = TargetSoftUpdate(tau, vf_target, vf)
    /\ n_soft' = n_soft + 1
    /\ last' = Call("_target_soft_update")
    /\ UNCHANGED <<memory, total_step, is_test, transition, actor, qf1, qf2,
                   vf, log_alpha, n_updates, files, other, tau,
                   policy_update_frequence, nstores>>

\* ------------------------------------------------------------------------
\* The replay buffer on its own: store and sample_batch called directly
\* ------------------------------------------------------------------------
\* the k-th call stores observation k
buffer_store(rew, done) ==
    /\ nstores < memory.max_size + ExtraStores
    /\ memory' = BufStore(memory, nstores + 1, 0, rew, 0, done)
    /\ nstores' = nstores + 1
    /\ last' = Call("store")
    /\ UNCHANGED <<total_step, is_test, transition, params, n_updates, files,
                   other, tau, policy_update_frequence, n_soft>>

buffer_sample_batch ==
    /\ IF SampleRaises(memory)
       THEN last' = [Call("sample_batch") EXCEPT !.raised = TRUE]
       ELSE \E idxs \in SampleIdxs(memory) :
                last' = [Call("sample_batch") EXCEPT !.ret = idxs]
    /\ UNCHANGED <<memory, total_step, is_test, transition, params, n_updates,
                   files, other, tau, policy_update_frequence, nstores, n_soft>>

\* ------------------------------------------------------------------------
\* Specifications
\* ------------------------------------------------------------------------
\* The agent from construction, driven by the environment loop.
Next ==
    \/ \E raw \in [1..action_dim -> RawActs] : step(raw)
    \/ \E c \in EnvCalls : store_transition(c[1], c[2], c[3], c[4], c[5])
    \/ train

Spec == Init /\ [][Next]_vars

\* The agent at the end of the warm-up: INITIAL_RANDOM_STEPS steps taken and
\* BATCH_SIZE all-zero transitions stored, the last call being the last
\* store.  Spec reaches this state (WarmedUp); nothing but the counters and
\* the buffer differs from the state after construction.
WarmedUp ==
    /\ total_step = INITIAL_RANDOM_STEPS
    /\ nstores = BATCH_SIZE
    /\ memory = [ReplayBuffer(BUFFER_SIZE, BATCH_SIZE) EXCEPT
                    !.ptr = BATCH_SIZE, !.size = BATCH_SIZE]
    /\ transition = <<0, 0, 0, 0, FALSE>>
    /\ last = [Call("store_transition") EXCEPT !.args = <<0, 0, 0, 0, FALSE>>]

InitWarmAgent ==
    /\ WarmedUp
    /\ InitNetworks
    /\ InitRest

InitWarm ==
    /\ InitWarmAgent
    /\ tau = TAU
    /\ policy_update_frequence = POLICY_UPDATE_FREQUENCE

\* Every operation of the agent, from the end of the warm-up on.
NextAll ==
    \/ \E raw \in [1..action_dim -> RawActs] : step(raw)
    \/ \E c \in EnvCalls : store_transition(c[1], c[2], c[3], c[4], c[5])
    \/ train
    \/ save_models
    \/ load_models
    \/ other_load_models
    \/ \E b \in BOOLEAN : set_is_test(b)

SpecWarm == InitWarm /\ [][NextAll]_vars

\* The training loop with save and load, from the end of the warm-up on,
\* for every policy-update cadence up to MaxFreq.
InitFreq ==
    /\ InitWarmAgent
    /\ tau = TAU
    /\ policy_update_frequence \in 1..MaxFreq

NextFreq ==
    \/ \E raw \in [1..action_dim -> RawActs] : step(raw)
    \/ \E c \in EnvCalls : store_transition(c[1], c[2], c[3], c[4], c[5])
    \/ train
    \/ save_models
    \/ load_models

SpecFreq == InitFreq /\ [][NextFreq]_vars

\* _target_soft_update as a function of tau and the two parameter sets.
ParamElems == {RInt(0), RInt(1), Rat(1, 2)}

InitSoft ==
    /\ memory = ReplayBuffer(BUFFER_SIZE, BATCH_SIZE)
    /\ log_alpha = NewAgent(0).log_alpha
    /\ actor = NewAgent(0).actor
    /\ qf1 = NewAgent(0).qf1
    /\ qf2 = NewAgent(0).qf2
    /\ vf \in [Idx -> ParamElems]
    /\ vf_target \in [Idx -> ParamElems]
    /\ InitRest
    /\ InitCounters
    /\ tau \in {RZero, TAU, ROne}
    /\ policy_update_frequence = POLICY_UPDATE_FREQUENCE

NextSoft == target_soft_update

SpecSoft == InitSoft /\ [][NextSoft]_vars

\* The replay buffer for every capacity and batch size within the bounds.
InitBuf ==
    /\ \E c \in 1..MaxCap, b \in 1..MaxBatch : memory = ReplayBuffer(c, b)
    /\ InitNetworks
    /\ InitRest
    /\ InitCounters
    /\ tau = TAU
    /\ policy_update_frequence = POLICY_UPDATE_FREQUENCE

NextBuf ==
    \/ \E rew \in 0..1, done \in BOOLEAN : buffer_store(rew, done)
    \/ buffer_sample_batch

SpecBuf == InitBuf /\ [][NextBuf]_vars

\* ------------------------------------------------------------------------
\* Properties
\* ------------------------------------------------------------------------
Updated(l) == l.op = "train" /\ l.updates = 1 /\ ~l.raised

InUnit(x) == -1 <= x /\ x <= 1

\* target' - target = tau * (online - target), element by element
Blended(t, target_after, target_before, online) ==
    \A i \in Idx :
        RSub(target_after[i], target_before[i]) =
            RMul(t, RSub(online[i], target_before[i]))

\* C1: train() runs update_model exactly once when the buffer holds more than
\* BATCH_SIZE transitions and total_step exceeds INITIAL_RANDOM_STEPS; in
\* every other state it changes no parameter set, nor the buffer, nor
\* total_step.  No call changes a parameter set while total_step is at most
\* INITIAL_RANDOM_STEPS.
C1_TrainGate ==
    [][ /\ last'.op = "train" =>
              IF memory.size > BATCH_SIZE /\ total_step > INITIAL_RANDOM_STEPS
              THEN /\ last'.updates = 1
                   /\ n_updates' = n_updates + 1
                   /\ UNCHANGED <<memory, total_step>>
              ELSE /\ last'.updates = 0
                   /\ UNCHANGED <<params, memory, total_step, n_updates>>
        /\ total_step <= INITIAL_RANDOM_STEPS => UNCHANGED params
      ]_vars

\* C1 witness: update_model has run at the tightest open gate
C1_Witness ==
    /\ Updated(last)
    /\ n_updates = 1
    /\ memory.size = BATCH_SIZE + 1
    /\ total_step = INITIAL_RANDOM_STEPS + 1
    /\ actor # NewAgent(0).actor

\* C2: train() never reaches sample_batch while the buffer holds fewer
\* transitions than its batch size; no train() call raises
\* InsufficientDataError.
C2_NoInsufficientData ==
    last.op = "train" =>
        /\ ~last.raised
        /\ last.updates = 1 => memory.size >= memory.batch_size

\* C2 witness: train() has sampled from a buffer one above its batch size
C2_Witness ==
    /\ Updated(last)
    /\ memory.batch_size = BATCH_SIZE
    /\ memory.size = memory.batch_size + 1

\* C3: the buffer never holds more than its capacity; size is the number of
\* stores saturated at capacity, the cursor is that number modulo capacity,
\* every valid slot holds the latest transition written to it; after
\* capacity + 1 stores the length is the capacity, slot 0 holds the last
\* transition and the first one is gone; sampled indices are below size.
LatestAt(i, n, c) == CHOOSE k \in 1..n : (k - 1) % c = i /\ k + c > n

C3_BufferInvariant ==
    LET c == memory.max_size
    IN  /\ memory.size <= c
        /\ memory.size = Min(nstores, c)
        /\ memory.ptr = nstores % c
        /\ DOMAIN memory.buf \subseteq 0..(memory.size - 1)
        /\ \A i \in 0..(memory.size - 1) :
               BufAt(memory, i).obs = LatestAt(i, nstores, c)
        /\ nstores = c + 1 =>
               /\ BufLen(memory) = c
               /\ BufAt(memory, 0).obs = c + 1
               /\ \A i \in 0..(c - 1) : BufAt(memory, i).obs # 1
        /\ (last.op = "sample_batch" /\ ~last.raised) =>
               /\ Len(last.ret) = memory.batch_size
               /\ \A k \in 1..Len(last.ret) :
                      last.ret[k] >= 0 /\ last.ret[k] < memory.size
        /\ (last.op = "sample_batch" /\ last.raised) =>
               memory.size < memory.batch_size

\* C3 witness: a full buffer of the largest capacity, written once more and
\* then sampled
C3_Witness ==
    /\ memory.max_size = MaxCap
    /\ nstores = MaxCap + 1
    /\ last.op = "sample_batch"
    /\ ~last.raised

\* C4: store_transition changes nothing in test mode; otherwise it performs
\* one buffer store of (state, action, reward, new_state, done) and changes
\* neither total_step nor any parameter set.
C4_StoreTransition ==
    [][ last'.op = "store_transition" =>
          /\ UNCHANGED <<total_step, params, is_test, n_updates, n_soft,
                         files, other>>
          /\ IF is_test
             THEN UNCHANGED <<memory, transition, nstores>>
             ELSE LET a == last'.args
                  IN  /\ memory' = BufStore(memory, a[1], a[4], a[3], a[2], a[5])
                      /\ nstores' = nstores + 1
      ]_vars

\* C4 witness: a transition with distinct fields was stored in slot
\* BATCH_SIZE, then store_transition was called in test mode
C4_Witness ==
    /\ last.op = "store_transition"
    /\ is_test
    /\ last.args = <<1, 2, 3, 4, TRUE>>
    /\ nstores = BATCH_SIZE + 1
    /\ BufAt(memory, BATCH_SIZE) =
           [obs |-> 1, acts |-> 4, rews |-> 3, next_obs |-> 2, done |-> TRUE]

C6_SoftUpdate ==
    [][ last'.op = "_target_soft_update" =>
          /\ vf' = vf
          /\ Blended(tau, vf_target', vf_target, vf)
          /\ tau = ROne => vf_target' = vf
          /\ tau = RZero => vf_target' = vf_target
      ]_vars

\* C6 witness: a soft update with tau = TAU has moved a target that differed
\* from the online parameters
C6_Witness ==
    /\ last.op = "_target_soft_update"
    /\ tau = TAU
    /\ n_soft = 1
    /\ vf = [i \in Idx |-> RInt(1)]
    /\ vf_target = [i \in Idx |-> Rat(1, 200)]

\* C7: save_models changes no agent state; load_models on the second agent
\* right after a save gives it the first agent's actor, qf1, qf2 and vf; the
\* artifacts change only by save_models, and a load always installs them.
C7_SaveLoadRoundTrip ==
    [][ /\ last'.op = "save_models" =>
              UNCHANGED <<memory, total_step, is_test, transition, params,
                          n_updates, n_soft, other>>
        /\ (last.op = "save_models" /\ last'.op = "other.load_models") =>
              /\ other'.actor = actor
              /\ other'.qf1 = qf1
              /\ other'.qf2 = qf2
              /\ other'.vf = vf
        /\ last'.op # "save_models" => files' = files
        /\ last'.op = "other.load_models" =>
              /\ other'.actor = files["actor"]
              /\ other'.qf1 = files["qf1"]
              /\ other'.qf2 = files["qf2"]
              /\ other'.vf = files["vf"]
      ]_vars

\* C7 witness: the second agent holds the trained parameters of the first
C7_Witness ==
    /\ last.op = "other.load_models"
    /\ n_updates >= 1
    /\ vf # NewAgent(0).vf
    /\ other.actor = actor
    /\ other.qf1 = qf1
    /\ other.qf2 = qf2
    /\ other.vf = vf
    /\ qf1 # qf2

\* C8: target-V equals the constructed V until the first soft update and
\* changes only by the soft update of a policy-update call, blended from V as
\* it is before that call's V step; a call that is not a policy-update call
\* leaves target-V and the actor alone, returns a zero actor loss and still
\* steps the alpha, Q1, Q2 and V optimizers.
C8_TargetOnlySoftUpdated ==
    [][ /\ n_soft = 0 => vf_target = NewAgent(0).vf
        /\ vf_target' # vf_target =>
              /\ Updated(last')
              /\ total_step % policy_update_frequence = 0
              /\ "actor" \in last'.reads.stepped
        /\ Updated(last') =>
              IF total_step % policy_update_frequence = 0
              THEN /\ Blended(tau, vf_target', vf_target, vf)
                   /\ last'.reads.actor_loss = "computed"
                   /\ last'.reads.stepped = {"alpha", "actor", "qf1", "qf2", "vf"}
              ELSE /\ UNCHANGED <<vf_target, actor>>
                   /\ last'.reads.actor_loss = "zeros"
                   /\ last'.reads.stepped = {"alpha", "qf1", "qf2", "vf"}
                   /\ n_updates' = n_updates + 1
      ]_vars

\* C8 witness: an update that was not a policy update moved V away from an
\* untouched target
C8_Witness ==
    /\ Updated(last)
    /\ ~last.reads.policy
    /\ policy_update_frequence = 2
    /\ total_step % 2 = 1
    /\ vf # NewAgent(0).vf
    /\ vf_target = NewAgent(0).vf
    /\ actor = NewAgent(0).actor

\* C9: in one update_model call the alpha loss reads log_alpha before the
\* alpha optimizer steps, alpha reads it after the step, and the Q-target
\* reads the target-V parameters as they are before the call.
C9_AlphaAfterStep ==
    [][ Updated(last') =>
          /\ last'.reads.alpha_loss_la = log_alpha
          /\ last'.reads.alpha_la = log_alpha'
          /\ last'.reads.q_target_vt = vf_target
          /\ "alpha" \in last'.reads.stepped
      ]_vars

\* C9 witness: the alpha step moved log_alpha and alpha read the new value
C9_Witness ==
    /\ Updated(last)
    /\ last.reads.alpha_la # last.reads.alpha_loss_la
    /\ last.reads.alpha_la = log_alpha

\* C10: load_models replaces actor, qf1, qf2 and vf by the artifacts and
\* leaves target-V, log_alpha, total_step, is_test and the buffer alone; the
\* update_model that follows a load reads that same target-V for its
\* Q-target.
C10_LoadKeepsTarget ==
    [][ /\ last'.op = "load_models" =>
              /\ UNCHANGED <<vf_target, log_alpha, total_step, is_test, memory,
                             nstores, transition>>
              /\ ~last'.raised =>
                    /\ actor' = files["actor"]
                    /\ qf1' = files["qf1"]
                    /\ qf2' = files["qf2"]
                    /\ vf' = files["vf"]
        /\ (last.op = "load_models" /\ Updated(last')) =>
              last'.reads.q_target_vt = vf_target
      ]_vars

\* C10 witness: after a load the target differs from the loaded V
C10_Witness ==
    /\ last.op = "load_models"
    /\ ~last.raised
    /\ n_soft >= 1
    /\ vf = NewAgent(0).vf
    /\ vf_target # vf

====
